---- MODULE Spec2Model ----
(***************************************************************************)
(* Model of src/mcp_server_weather/weather.py: the retrying NWS fetcher    *)
(* make_nws_request and the two tools get_alerts and get_forecast built on *)
(* it.  A coroutine is cut into steps at its await points.                 *)
(*                                                                         *)
(* Python values are modelled as follows.  An optional dictionary key is a *)
(* sequence of length 0 (key absent) or 1 (key present, holding the        *)
(* value).  A decoded JSON document is a dict (the return annotation of    *)
(* make_nws_request, line 19) with the keys the tools read; None is the    *)
(* separate value PyNone.  A string produced by an f-string or by join is  *)
(* the sequence of its pieces (labels, field values, separator lines).     *)
(***************************************************************************)
EXTENDS Integers, Sequences, FiniteSets, TLC

\* ---------------------------------------------------------------- constants
max_retries == 3
retry_delay == 5
ThrottleMin == 1
ThrottleMax == 3
PeriodCap == 5

\* ------------------------------------------------------------------- bounds
MaxFeatures == 2
MaxPeriods == 6

Min(a, b) == IF a < b THEN a ELSE b

Absent == <<>>
Some(v) == <<v>>
Has(opt) == Len(opt) = 1
Val(opt) == opt[1]

SeqsUpTo(S, n) == UNION {[1..k -> S] : k \in 0..n}

\* ------------------------------------------------------------------- inputs
NWS_API_BASE == "https://api.weather.gov"

States == {"CA", "ZZ"}
Coords == {<<"39.5", "-98.5">>}

\* forecast URLs a grid point document may embed
ForecastUrls == {<<NWS_API_BASE, "gridpoints/TOP/31,80/forecast">>,
                 <<NWS_API_BASE, "gridpoints/LWX/96,70/forecast">>}

AlertKeys == {"event", "areaDesc", "severity", "description", "instruction"}

\* the properties map of an alert whose keys `keys` are present
AlertProps(tag, keys) ==
    [k \in AlertKeys |-> IF k \in keys THEN Some(IF k = "event" THEN tag ELSE k) ELSE Absent]

Features == {[properties |-> Some(AlertProps("Flood Warning", AlertKeys))],
             [properties |-> Some(AlertProps("Wind Advisory", {"event", "areaDesc", "severity"}))],
             [properties |-> Absent]}

PeriodKeys == {"name", "temperature", "temperatureUnit", "windSpeed",
               "windDirection", "detailedForecast"}

Period(i) ==
    [name |-> Some(ToString(i)), temperature |-> Some(60 + i),
     temperatureUnit |-> Some("F"), windSpeed |-> Some("10 mph"),
     windDirection |-> Some("NW"), detailedForecast |-> Some("Sunny")]

\* a period of the upstream list that lacks its name
Nameless(i) == [Period(i) EXCEPT !.name = Absent]

PeriodLists ==
       {[i \in 1..n |-> Period(i)] : n \in 0..MaxPeriods}
  \cup {[i \in 1..n |-> Period(n + 1 - i)] : n \in 2..MaxPeriods}
  \cup {[i \in 1..n |-> IF i = n THEN Nameless(i) ELSE Period(i)] : n \in 1..MaxPeriods}

PyNone == [isNone |-> TRUE, features |-> Absent, properties |-> Absent]

Dict(features, properties) ==
    [isNone |-> FALSE, features |-> features, properties |-> properties]

NoProps == [forecast |-> Absent, periods |-> Absent]

Docs ==
       {Dict(Absent, Absent)}
  \cup {Dict(Some(fs), Absent) : fs \in SeqsUpTo(Features, MaxFeatures)}
  \cup {Dict(Absent, Some(NoProps))}
  \cup {Dict(Absent, Some([NoProps EXCEPT !.forecast = Some(u)])) : u \in ForecastUrls}
  \cup {Dict(Absent, Some([NoProps EXCEPT !.periods = Some(ps)])) : ps \in PeriodLists}

\* A response body: the text of a document, whole ("json") or cut short.
Body(text, doc) == [text |-> text, doc |-> doc]

ProblemDoc == Dict(Some(<<>>), Some(NoProps))

Bodies ==
       {Body("json", d) : d \in Docs}
  \cup {Body("truncated", d) : d \in {Dict(Some(<<>>), Absent), ProblemDoc}}

\* Retry-After header texts, as sequences of characters
RetryAfterTexts == {<<"7">>, <<"1", "2">>, <<"W", "e", "d">>}

Response(status, retryAfter, body) ==
    [status |-> status, retryAfter |-> retryAfter, body |-> body]

Responses ==
       {Response(200, Absent, b) : b \in Bodies}
  \cup {Response(s, Absent, Body("json", ProblemDoc)) : s \in {404, 500}}
  \cup {Response(429, h, Body("json", ProblemDoc)) :
            h \in {Absent} \cup {Some(t) : t \in RetryAfterTexts}}

\* the entry of the outcome history for a request that raised in transit
TransportFailure == Response(0, Absent, Body("none", PyNone))

\* ---------------------------------------------------------- pure functions
Digits == {"0", "1", "2", "3", "4", "5", "6", "7", "8", "9"}

DigitVal(c) == CHOOSE n \in 0..9 : ToString(n) = c

\* does int(text) succeed
IsIntText(text) == Len(text) > 0 /\ \A i \in 1..Len(text) : text[i] \in Digits

RECURSIVE IntOfText(_)
IntOfText(text) ==
    IF Len(text) = 0 THEN 0
    ELSE 10 * IntOfText(SubSeq(text, 1, Len(text) - 1)) + DigitVal(text[Len(text)])

\* bool(data) of a document or None
Truthy(d) == ~d.isNone /\ (Has(d.features) \/ Has(d.properties))

\* sep.join(parts)
RECURSIVE Join(_, _)
Join(parts, sep) ==
    IF Len(parts) = 0 THEN <<>>
    ELSE IF Len(parts) = 1 THEN parts[1]
    ELSE parts[1] \o <<sep>> \o Join(Tail(parts), sep)

SEPARATOR == "---"

Returns(text) == [exc |-> FALSE, text |-> text]
Raises == [exc |-> TRUE, text |-> <<>>]
Pending == [exc |-> FALSE, text |-> <<"(pending)">>]

\* props.get(key, default)
Get(props, key, default) == IF Has(props[key]) THEN Val(props[key]) ELSE default

\* mutant: the fields are indexed instead of read with .get()
format_alert_strict(feature) ==
    IF ~Has(feature.properties) THEN Raises
    ELSE LET props == Val(feature.properties) IN
         IF \E k \in AlertKeys : ~Has(props[k]) THEN Raises
         ELSE Returns(<<"Event:", Val(props["event"]), "Area:", Val(props["areaDesc"]),
                        "Severity:", Val(props["severity"]),
                        "Description:", Val(props["description"]),
                        "Instruction:", Val(props["instruction"])>>)

\* ------------------------------------------------------------ format_alert
format_alert(feature) ==
    IF ~Has(feature.properties) THEN Raises
    ELSE LET props == Val(feature.properties) IN
         Returns(<<"Event:", Get(props, "event", "unknown"),
                   "Area:", Get(props, "areaDesc", "unknown"),
                   "Severity:", Get(props, "severity", "unknown"),
                   "Description:", Get(props, "description", "no description"),
                   "Instruction:", Get(props, "instruction", "no instructions")>>)

\* -------------------------------------------------------- make_nws_request
\* The state of one call: pc is the await point the coroutine is suspended at,
\* trace the sleeps and requests it has performed so far, outcomes what each
\* request ended in, ret/via the value returned and the return statement used.
Ev(op, n) == [op |-> op, n |-> n]

NoFetch ==
    [pc |-> "off", url |-> <<>>, attempt |-> 0, trace |-> <<>>, outcomes |-> <<>>,
     ret |-> PyNone, via |-> "none"]

\* mutant: the throttle before the first request is dropped
make_nws_request_unthrottled(url) == [NoFetch EXCEPT !.pc = "get", !.url = url]

\* entry of the coroutine: suspended at the throttle of line 33
make_nws_request(url) == [NoFetch EXCEPT !.pc = "throttle", !.url = url]

ThrottleDelays == ThrottleMin..ThrottleMax

\* line 33 done, lines 35-44: enter the loop with attempt = 0
throttle(f, d) ==
    [f EXCEPT !.pc = "get", !.trace = Append(@, Ev("throttle", d)), !.attempt = 0]

\* line 48: the GET request of the current attempt is issued
client_get(f) ==
    [f EXCEPT !.pc = "wait", !.trace = Append(@, Ev("get", f.attempt + 1))]

sleep(f, secs) == [f EXCEPT !.pc = "sleep", !.trace = Append(@, Ev("sleep", secs))]

return(f, value, via) == [f EXCEPT !.pc = "returned", !.ret = value, !.via = via]

\* mutant: the last retry is given up one attempt early
except_Exception_short_budget(f) ==
    IF f.attempt < max_retries - 2 THEN sleep(f, retry_delay)
    ELSE return(f, PyNone, "except Exception")

\* mutant: the final attempt backs off too instead of returning
except_Exception_always_sleeps(f) == sleep(f, retry_delay)

\* mutant: a failed attempt is retried at once, without the backoff sleep
except_Exception_no_backoff(f) ==
    IF f.attempt < max_retries - 1 THEN [f EXCEPT !.pc = "get", !.attempt = @ + 1]
    ELSE return(f, PyNone, "except Exception")

\* lines 67-71
except_Exception(f) ==
    IF f.attempt < max_retries - 1 THEN sleep(f, retry_delay)
    ELSE return(f, PyNone, "except Exception")

\* mutant: every error status is retried like a transport failure
on_response_retries_errors(f, r) ==
    IF r.status = 429
    THEN IF ~Has(r.retryAfter) THEN sleep(f, retry_delay)
         ELSE IF IsIntText(Val(r.retryAfter)) THEN sleep(f, IntOfText(Val(r.retryAfter)))
         ELSE except_Exception(f)
    ELSE IF r.status >= 400 THEN except_Exception(f)
    ELSE IF r.body.text = "json" THEN return(f, r.body.doc, "response.json()")
    ELSE except_Exception(f)

\* mutant: the Retry-After header is ignored
on_response_fixed_backoff(f, r) ==
    IF r.status = 429
    THEN IF ~Has(r.retryAfter) \/ IsIntText(Val(r.retryAfter)) THEN sleep(f, retry_delay)
         ELSE except_Exception(f)
    ELSE IF r.status >= 400 THEN return(f, PyNone, "except HTTPStatusError")
    ELSE IF r.body.text = "json" THEN return(f, r.body.doc, "response.json()")
    ELSE except_Exception(f)

\* mutant: whatever could be read of a 2xx body is returned
on_response_unchecked_body(f, r) ==
    IF r.status = 429
    THEN IF ~Has(r.retryAfter) THEN sleep(f, retry_delay)
         ELSE IF IsIntText(Val(r.retryAfter)) THEN sleep(f, IntOfText(Val(r.retryAfter)))
         ELSE except_Exception(f)
    ELSE IF r.status >= 400 THEN return(f, PyNone, "except HTTPStatusError")
    ELSE return(f, r.body.doc, "response.json()")

\* mutant: a 429 on the final attempt returns at once, as a transport failure does
on_response_no_final_backoff(f, r) ==
    IF r.status = 429
    THEN IF f.attempt >= max_retries - 1 THEN return(f, PyNone, "except Exception")
         ELSE IF ~Has(r.retryAfter) THEN sleep(f, retry_delay)
         ELSE IF IsIntText(Val(r.retryAfter)) THEN sleep(f, IntOfText(Val(r.retryAfter)))
         ELSE except_Exception(f)
    ELSE IF r.status >= 400 THEN return(f, PyNone, "except HTTPStatusError")
    ELSE IF r.body.text = "json" THEN return(f, r.body.doc, "response.json()")
    ELSE except_Exception(f)

\* mutant: a 2xx body that does not parse is a definitive failure
on_response_bad_json_fails(f, r) ==
    IF r.status = 429
    THEN IF ~Has(r.retryAfter) THEN sleep(f, retry_delay)
         ELSE IF IsIntText(Val(r.retryAfter)) THEN sleep(f, IntOfText(Val(r.retryAfter)))
         ELSE except_Exception(f)
    ELSE IF r.status >= 400 THEN return(f, PyNone, "except HTTPStatusError")
    ELSE IF r.body.text = "json" THEN return(f, r.body.doc, "response.json()")
    ELSE return(f, PyNone, "except Exception")

\* mutant: a Retry-After that is no integer falls back to the default delay
on_response_bad_hint_falls_back(f, r) ==
    IF r.status = 429
    THEN IF ~Has(r.retryAfter) THEN sleep(f, retry_delay)
         ELSE IF IsIntText(Val(r.retryAfter)) THEN sleep(f, IntOfText(Val(r.retryAfter)))
         ELSE sleep(f, retry_delay)
    ELSE IF r.status >= 400 THEN return(f, PyNone, "except HTTPStatusError")
    ELSE IF r.body.text = "json" THEN return(f, r.body.doc, "response.json()")
    ELSE except_Exception(f)

\* lines 51-66, for the response r of the current attempt
on_response(f, r) ==
    IF r.status = 429
    THEN IF ~Has(r.retryAfter) THEN sleep(f, retry_delay)
         ELSE IF IsIntText(Val(r.retryAfter)) THEN sleep(f, IntOfText(Val(r.retryAfter)))
         ELSE except_Exception(f)
    ELSE IF r.status >= 400 THEN return(f, PyNone, "except HTTPStatusError")
    ELSE IF r.body.text = "json" THEN return(f, r.body.doc, "response.json()")
    ELSE except_Exception(f)

\* mutant: the loop runs one iteration too many
loop_continue_off_by_one(f) ==
    IF f.attempt + 1 <= max_retries THEN [f EXCEPT !.pc = "get", !.attempt = @ + 1]
    ELSE return([f EXCEPT !.attempt = @ + 1], PyNone, "end of function")

\* mutant: the call never comes back from the backoff sleep of its final attempt
loop_continue_hangs(f) ==
    IF f.attempt + 1 < max_retries THEN [f EXCEPT !.pc = "get", !.attempt = @ + 1]
    ELSE f

\* `continue` after a sleep: the next iteration of line 44, or the end of the
\* loop and of the function (an implicit return None)
loop_continue(f) ==
    IF f.attempt + 1 < max_retries THEN [f EXCEPT !.pc = "get", !.attempt = @ + 1]
    ELSE return([f EXCEPT !.attempt = @ + 1], PyNone, "end of function")

\* --------------------------------------------------------------- get_alerts
MSG_ALERTS_NO_DATA == "Unable to fetch alerts or no data found."
MSG_NO_ACTIVE_ALERTS == "No active alerts for this state."
MSG_POINTS_UNAVAILABLE == "Unable to fetch forecast data for this location."
MSG_FORECAST_UNAVAILABLE == "Unable to fetch detailed forecast."

alerts_url(state) == <<NWS_API_BASE, "alerts/active/area", state>>

\* lines 101-111
get_alerts_result(data) ==
    IF ~Truthy(data) \/ ~Has(data.features) THEN Returns(<<MSG_ALERTS_NO_DATA>>)
    ELSE IF Val(data.features) = <<>> THEN Returns(<<MSG_NO_ACTIVE_ALERTS>>)
    ELSE LET fs == Val(data.features)
             alerts == [i \in 1..Len(fs) |-> format_alert(fs[i])]
         IN  IF \E i \in 1..Len(fs) : alerts[i].exc THEN Raises
             ELSE Returns(Join([i \in 1..Len(fs) |-> alerts[i].text], SEPARATOR))

\* ------------------------------------------------------------- get_forecast
points_url(latitude, longitude) == <<NWS_API_BASE, "points", latitude, longitude>>

\* line 132: points_data["properties"]["forecast"], a KeyError when a key is missing
HasForecastUrl(points_data) ==
    Has(points_data.properties) /\ Has(Val(points_data.properties).forecast)

\* mutant: the forecast is always asked of one office, whatever the document says
forecast_url_fixed(points_data) == <<NWS_API_BASE, "gridpoints/TOP/31,80/forecast">>

forecast_url(points_data) == Val(Val(points_data.properties).forecast)

\* lines 144-149
format_period(period) ==
    IF \E k \in PeriodKeys : ~Has(period[k]) THEN Raises
    ELSE Returns(<<Val(period.name), "Temperature:", ToString(Val(period.temperature)),
                   Val(period.temperatureUnit), "Wind:", Val(period.windSpeed),
                   Val(period.windDirection), "Forecast:", Val(period.detailedForecast)>>)

\* mutant: the cap on the number of periods is dropped
FirstPeriods_uncapped(periods) == periods

\* periods[:5]
FirstPeriods(periods) == SubSeq(periods, 1, Min(Len(periods), PeriodCap))

\* lines 136-153
get_forecast_result(forecast_data) ==
    IF ~Truthy(forecast_data) THEN Returns(<<MSG_FORECAST_UNAVAILABLE>>)
    ELSE IF ~Has(forecast_data.properties) \/ ~Has(Val(forecast_data.properties).periods)
    THEN Raises
    ELSE LET periods == FirstPeriods(Val(Val(forecast_data.properties).periods))
             forecasts == [i \in 1..Len(periods) |-> format_period(periods[i])]
         IN  IF \E i \in 1..Len(periods) : forecasts[i].exc THEN Raises
             ELSE Returns(Join([i \in 1..Len(periods) |-> forecasts[i].text], SEPARATOR))

\* -------------------------------------------------------------------- state
VARIABLES
    hpc,            \* where the tool handler is: idle, alerts, points, forecast, done
    tool,           \* the tool being served
    urls,           \* the URLs this invocation has passed to make_nws_request, in order
    fetch,          \* the make_nws_request call in progress (or the last one)
    data,           \* get_alerts: data (line 98)
    points_data,    \* get_forecast: points_data (line 126)
    forecast_data,  \* get_forecast: forecast_data (line 134)
    result,         \* what the handler returned, or that it raised
    throttles,      \* how many throttle delays (line 33) this invocation has slept
    alert,          \* format_alert on its own: the feature passed to it
    formatted,      \* format_alert on its own: what it returned
    calls           \* concurrent callers: the make_nws_request calls in progress

vars == <<hpc, tool, urls, fetch, data, points_data, forecast_data, result,
          throttles, alert, formatted, calls>>

\* the state of the tool handler and of its make_nws_request call
toolvars == <<hpc, tool, urls, fetch, data, points_data, forecast_data, result, throttles>>

\* the state the tool handler does not touch
others == <<alert, formatted, calls>>

NoAlert == [properties |-> Absent]

ToolInit ==
    /\ hpc = "idle"
    /\ tool = "none"
    /\ urls = <<>>
    /\ fetch = NoFetch
    /\ data = PyNone
    /\ points_data = PyNone
    /\ forecast_data = PyNone
    /\ result = Pending
    /\ throttles = 0

OthersInit ==
    /\ alert = NoAlert
    /\ formatted = Pending
    /\ calls = <<>>

Init == ToolInit /\ OthersInit

\* a tool call arrives once the previous one has been answered
Invoke(name, url) ==
    /\ hpc \in {"idle", "done"}
    /\ tool' = name
    /\ urls' = <<url>>
    /\ fetch' = make_nws_request(url)
    /\ data' = PyNone
    /\ points_data' = PyNone
    /\ forecast_data' = PyNone
    /\ result' = Pending
    /\ throttles' = 0
    /\ UNCHANGED others

\* lines 97-98
CallGetAlerts ==
    \E state \in States :
        /\ Invoke("get_alerts", alerts_url(state))
        /\ hpc' = "alerts"

\* lines 125-126
CallGetForecast ==
    \E c \in Coords :
        /\ Invoke("get_forecast", points_url(c[1], c[2]))
        /\ hpc' = "points"

FetchStep(f) ==
    /\ fetch' = f
    /\ UNCHANGED <<hpc, tool, urls, data, points_data, forecast_data, result, others>>

Throttle ==
    /\ fetch.pc = "throttle"
    /\ \E d \in ThrottleDelays : FetchStep(throttle(fetch, d))
    /\ throttles' = throttles + 1

SendGet ==
    /\ fetch.pc = "get"
    /\ FetchStep(client_get(fetch))
    /\ UNCHANGED throttles

RecvResponse ==
    /\ fetch.pc = "wait"
    /\ \E r \in Responses :
          FetchStep(on_response([fetch EXCEPT !.outcomes = Append(@, r)], r))
    /\ UNCHANGED throttles

RecvTransportFailure ==
    /\ fetch.pc = "wait"
    /\ FetchStep(except_Exception([fetch EXCEPT !.outcomes = Append(@, TransportFailure)]))
    /\ UNCHANGED throttles

WakeUp ==
    /\ fetch.pc = "sleep"
    /\ FetchStep(loop_continue(fetch))
    /\ UNCHANGED throttles

\* lines 98-111: make_nws_request has returned to get_alerts
AlertsResume ==
    /\ hpc = "alerts"
    /\ fetch.pc = "returned"
    /\ data' = fetch.ret
    /\ result' = get_alerts_result(fetch.ret)
    /\ hpc' = "done"
    /\ UNCHANGED <<tool, urls, fetch, points_data, forecast_data, throttles, others>>

\* lines 126-134: the first make_nws_request has returned to get_forecast
PointsResume ==
    /\ hpc = "points"
    /\ fetch.pc = "returned"
    /\ points_data' = fetch.ret
    /\ IF ~Truthy(fetch.ret)
       THEN /\ result' = Returns(<<MSG_POINTS_UNAVAILABLE>>)
            /\ hpc' = "done"
            /\ UNCHANGED <<urls, fetch>>
       ELSE IF ~HasForecastUrl(fetch.ret)
       THEN /\ result' = Raises
            /\ hpc' = "done"
            /\ UNCHANGED <<urls, fetch>>
       ELSE /\ urls' = Append(urls, forecast_url(fetch.ret))
            /\ fetch' = make_nws_request(forecast_url(fetch.ret))
            /\ hpc' = "forecast"
            /\ UNCHANGED result
    /\ UNCHANGED <<tool, data, forecast_data, throttles, others>>

\* lines 134-153: the second make_nws_request has returned to get_forecast
ForecastResume ==
    /\ hpc = "forecast"
    /\ fetch.pc = "returned"
    /\ forecast_data' = fetch.ret
    /\ result' = get_forecast_result(fetch.ret)
    /\ hpc' = "done"
    /\ UNCHANGED <<tool, urls, fetch, data, points_data, throttles, others>>

Next ==
    \/ CallGetAlerts
    \/ CallGetForecast
    \/ Throttle
    \/ SendGet
    \/ RecvResponse
    \/ RecvTransportFailure
    \/ WakeUp
    \/ AlertsResume
    \/ PointsResume
    \/ ForecastResume

Spec == Init /\ [][Next]_vars

\* The event loop resumes every coroutine that can run: a sleep ends, a request
\* completes or times out (timeout=30.0, line 48), a returned call resumes its
\* caller.
FairSpec ==
    /\ Spec
    /\ WF_vars(Throttle)
    /\ WF_vars(SendGet)
    /\ WF_vars(RecvResponse \/ RecvTransportFailure)
    /\ WF_vars(WakeUp)
    /\ WF_vars(AlertsResume)
    /\ WF_vars(PointsResume)
    /\ WF_vars(ForecastResume)

\* ------------------------------------------------- format_alert on its own
AlertTags == {"Flood Warning", "Wind Advisory", "Heat Advisory"}

\* the features format_alert is applied to: every subset of the five keys
\* present in properties, and a feature without properties
AlertInputs ==
    {[properties |-> Some(AlertProps(t, ks))] : t \in AlertTags, ks \in SUBSET AlertKeys}
        \cup {NoAlert}

FormatInit ==
    /\ ToolInit
    /\ alert \in AlertInputs
    /\ formatted = Pending
    /\ calls = <<>>

\* line 109: format_alert(feature)
FormatAlert ==
    /\ formatted = Pending
    /\ formatted' = format_alert(alert)
    /\ UNCHANGED <<toolvars, alert, calls>>

FormatNext == FormatAlert

FormatSpec == FormatInit /\ [][FormatNext]_vars

\* ------------------------------------------- concurrent make_nws_request calls
\* Several callers await make_nws_request in one event loop; the loop runs one
\* coroutine step at a time, in any order.  All the state of a call is in its
\* own frame (lines 29-71 use only locals).
MaxCalls == 2

CallIds == 1..MaxCalls

ConcResponses ==
    {Response(200, Absent, Body("json", Dict(Some(<<>>), Absent))),
     Response(404, Absent, Body("json", ProblemDoc)),
     Response(429, Absent, Body("json", ProblemDoc))}

\* the ends of the throttle interval
ConcDelays == {ThrottleMin, ThrottleMax}

ConcInit ==
    /\ ToolInit
    /\ alert = NoAlert
    /\ formatted = Pending
    /\ calls = [i \in CallIds |-> make_nws_request(alerts_url("CA"))]

CallStep(i, f) ==
    /\ calls' = [calls EXCEPT ![i] = f]
    /\ UNCHANGED <<toolvars, alert, formatted>>

CThrottle ==
    \E i \in CallIds :
        /\ calls[i].pc = "throttle"
        /\ \E d \in ConcDelays : CallStep(i, throttle(calls[i], d))

CSendGet ==
    \E i \in CallIds :
        /\ calls[i].pc = "get"
        /\ CallStep(i, client_get(calls[i]))

CRecvResponse ==
    \E i \in CallIds :
        /\ calls[i].pc = "wait"
        /\ \E r \in ConcResponses :
              CallStep(i, on_response([calls[i] EXCEPT !.outcomes = Append(@, r)], r))

\* mutant: the attempts are counted in a counter the calls share
CRecvTransportFailure_shared_budget ==
    \E i \in CallIds :
        /\ calls[i].pc = "wait"
        /\ LET used == Cardinality({j \in CallIds : Len(calls[j].outcomes) > 0})
                       + Len(calls[i].outcomes)
           IN  CallStep(i, except_Exception(
                   [calls[i] EXCEPT !.outcomes = Append(@, TransportFailure),
                                    !.attempt = IF used > @ THEN Min(used, max_retries - 1) ELSE @]))

CRecvTransportFailure ==
    \E i \in CallIds :
        /\ calls[i].pc = "wait"
        /\ CallStep(i, except_Exception(
               [calls[i] EXCEPT !.outcomes = Append(@, TransportFailure)]))

CWakeUp ==
    \E i \in CallIds :
        /\ calls[i].pc = "sleep"
        /\ CallStep(i, loop_continue(calls[i]))

ConcNext ==
    \/ CThrottle
    \/ CSendGet
    \/ CRecvResponse
    \/ CRecvTransportFailure
    \/ CWakeUp

ConcSpec == ConcInit /\ [][ConcNext]_vars

\* ================================================================ properties
\* What one call of make_nws_request has done, read off its history.
GetPositions(f) == {j \in DOMAIN f.trace : f.trace[j].op = "get"}

\* the number of GET requests the call has issued
Gets(f) == Cardinality(GetPositions(f))

\* the position in the trace of the i-th GET request
GetPos(f, i) ==
    CHOOSE j \in GetPositions(f) : Cardinality({k \in GetPositions(f) : k <= j}) = i

Sleeps(f) == {j \in DOMAIN f.trace : f.trace[j].op = "sleep"}

IsErrorStatus(s) == s \in 400..599 /\ s # 429
Is2xx(s) == s \in 200..299

ParsedOk(r) == Is2xx(r.status) /\ r.body.text = "json"

Last(seq) == seq[Len(seq)]

\* C1: once an attempt receives a 4xx/5xx status other than 429, the call has
\* returned None, that attempt's request is the last thing the call did (no
\* further request, no backoff sleep), whatever preceded it; if it was the
\* first attempt, one request was issued in total.
C1_ErrorStatusAbortsAtOnce ==
    \A i \in 1..Len(fetch.outcomes) :
        IsErrorStatus(fetch.outcomes[i].status) =>
            /\ i = Len(fetch.outcomes)
            /\ fetch.pc = "returned"
            /\ fetch.ret = PyNone
            /\ Gets(fetch) = i
            /\ Last(fetch.trace).op = "get"
            /\ Sleeps(fetch) \subseteq 1..GetPos(fetch, i)
            /\ (i = 1 => Gets(fetch) = 1 /\ Sleeps(fetch) = {})

\* an error status answers the second attempt, after a rate-limited first one
C1_Witness ==
    /\ Len(fetch.outcomes) = 2
    /\ fetch.outcomes[1].status = 429
    /\ fetch.outcomes[2].status = 500
    /\ fetch.pc = "returned"

\* C2: for k in 0..2, k transport failures followed by a 2xx response with a
\* parseable body make the call return that attempt's decoded document after
\* exactly k+1 requests; the call is still running after k such failures, so
\* that attempt k+1 is made.
C2_SuccessAfterTransportFailures ==
    \A k \in 0..2 :
      /\ ( /\ Len(fetch.outcomes) = k
           /\ fetch.pc # "off"
           /\ \A i \in 1..k : fetch.outcomes[i] = TransportFailure )
         => fetch.pc \in {"throttle", "get", "wait", "sleep"}
      /\ ( /\ Len(fetch.outcomes) >= k + 1
           /\ \A i \in 1..k : fetch.outcomes[i] = TransportFailure
           /\ ParsedOk(fetch.outcomes[k + 1]) )
         => /\ Len(fetch.outcomes) = k + 1
            /\ fetch.pc = "returned"
            /\ fetch.ret # PyNone
            /\ fetch.ret = fetch.outcomes[k + 1].body.doc
            /\ Gets(fetch) = k + 1

\* two transport failures, then the third attempt succeeds
C2_Witness ==
    /\ Len(fetch.outcomes) = 3
    /\ fetch.outcomes[1] = TransportFailure
    /\ fetch.outcomes[2] = TransportFailure
    /\ ParsedOk(fetch.outcomes[3])
    /\ fetch.pc = "returned"

\* C3: when every attempt ends in a transport failure the call returns None
\* after exactly 3 requests: it has not returned before the third, and after
\* the third it has returned, with no sleep and no fourth request.
C3_TransportFailuresExhaustBudget ==
    (    /\ Len(fetch.outcomes) >= 1
         /\ \A i \in 1..Len(fetch.outcomes) : fetch.outcomes[i] = TransportFailure )
    => /\ Len(fetch.outcomes) <= 3
       /\ Gets(fetch) <= 3
       /\ (fetch.pc = "returned" <=> Len(fetch.outcomes) = 3)
       /\ (fetch.pc = "returned" => /\ fetch.ret = PyNone
                                    /\ Gets(fetch) = 3
                                    /\ Last(fetch.trace).op = "get")

\* three transport failures in a row, and the call is over
C3_Witness ==
    /\ Len(fetch.outcomes) = 3
    /\ \A i \in 1..3 : fetch.outcomes[i] = TransportFailure
    /\ fetch.pc = "returned"

\* C4: a call never issues more than 3 GET requests, whatever the outcomes; a
\* request is only about to be issued while fewer than 3 were; a 429 uses up an
\* attempt, so after three 429 responses the call issues nothing more and ends
\* with None.
C4_AtMostThreeRequests ==
    /\ Gets(fetch) <= 3
    /\ Len(fetch.outcomes) <= Gets(fetch)
    /\ (fetch.pc = "get" => Gets(fetch) < 3)
    /\ ( ( /\ Len(fetch.outcomes) = 3
           /\ \A i \in 1..3 : fetch.outcomes[i].status = 429 )
         => /\ Gets(fetch) = 3
            /\ fetch.pc \in {"sleep", "returned"}
            /\ fetch.ret = PyNone )

\* three 429 responses in a row, and the call is over
C4_Witness ==
    /\ Len(fetch.outcomes) = 3
    /\ \A i \in 1..3 : fetch.outcomes[i].status = 429
    /\ fetch.pc = "returned"

\* the delay a Retry-After header of the model asks for, written out
HintedDelay(h) ==
    IF h = Absent THEN 5
    ELSE IF h = Some(<<"7">>) THEN 7
    ELSE IF h = Some(<<"1", "2">>) THEN 12
    ELSE -1

\* C5: after a 429 response the next thing the call does is sleep, for exactly
\* N when the response carries Retry-After: N and for 5 when it carries none;
\* the following request, if any, comes after that sleep.
C5_RateLimitBackoff ==
    \A i \in 1..Len(fetch.outcomes) :
        LET r == fetch.outcomes[i]
            g == GetPos(fetch, i)
        IN  (r.status = 429 /\ HintedDelay(r.retryAfter) >= 0) =>
                /\ Len(fetch.trace) > g
                /\ fetch.trace[g + 1] = Ev("sleep", HintedDelay(r.retryAfter))
                /\ (Gets(fetch) > i => GetPos(fetch, i + 1) = g + 2)

\* a 429 with Retry-After: 12 and one without the header, each slept out
C5_Witness ==
    /\ Len(fetch.outcomes) = 3
    /\ fetch.outcomes[1].status = 429 /\ fetch.outcomes[1].retryAfter = Some(<<"1", "2">>)
    /\ fetch.outcomes[2].status = 429 /\ fetch.outcomes[2].retryAfter = Absent

\* C6: the call returns a document only from a 2xx response whose body parsed,
\* and then it is the document of that (its last) attempt; every other way out
\* (cut-short body, error status, attempts used up) returns None.
C6_DocumentOrFailure ==
    /\ fetch.ret # PyNone =>
          /\ fetch.pc = "returned"
          /\ ParsedOk(Last(fetch.outcomes))
          /\ fetch.ret = Last(fetch.outcomes).body.doc
    /\ (fetch.pc = "returned" /\ ~ParsedOk(Last(fetch.outcomes))) => fetch.ret = PyNone
    /\ fetch.ret \in Docs \cup {PyNone}

\* the last attempt got a 2xx response with a cut-short body and the call failed
C6_Witness ==
    /\ fetch.pc = "returned"
    /\ Len(fetch.outcomes) = 3
    /\ Is2xx(fetch.outcomes[3].status)
    /\ fetch.outcomes[3].body.text = "truncated"
    /\ fetch.ret = PyNone

\* ---- the tools' results, read back from the returned text
SepPositions(text) == {i \in DOMAIN text : text[i] = SEPARATOR}

\* the position of the k-th separator line; 0 and Len+1 bracket the text
SepAt(text, k) ==
    IF k = 0 THEN 0
    ELSE IF k > Cardinality(SepPositions(text)) THEN Len(text) + 1
    ELSE CHOOSE j \in SepPositions(text) :
            Cardinality({m \in SepPositions(text) : m <= j}) = k

\* the number of entries a joined text holds, and its k-th entry
EntryCount(text) == IF text = <<>> THEN 0 ELSE Cardinality(SepPositions(text)) + 1
Entry(text, k) == SubSeq(text, SepAt(text, k - 1) + 1, SepAt(text, k) - 1)

FixedMessages ==
    {<<MSG_ALERTS_NO_DATA>>, <<MSG_NO_ACTIVE_ALERTS>>,
     <<MSG_POINTS_UNAVAILABLE>>, <<MSG_FORECAST_UNAVAILABLE>>}

\* C7: get_alerts calls the fetcher exactly once and returns the "no data"
\* message when the fetch failed or the document has no features key, the "no
\* active alerts" message when features is empty, and otherwise one formatted
\* alert per entry of features, in upstream order, joined by separator lines.
C7_GetAlertsResult ==
    (hpc = "done" /\ tool = "get_alerts") =>
        /\ Len(urls) = 1
        /\ IF fetch.ret = PyNone \/ ~Has(fetch.ret.features)
           THEN result = Returns(<<MSG_ALERTS_NO_DATA>>)
           ELSE IF Val(fetch.ret.features) = <<>>
           THEN result = Returns(<<MSG_NO_ACTIVE_ALERTS>>)
           ELSE LET fs == Val(fetch.ret.features) IN
                /\ ~result.exc
                /\ EntryCount(result.text) = Len(fs)
                /\ \A k \in 1..Len(fs) :
                      Has(fs[k].properties) =>
                          Entry(result.text, k)[2] = Val(Val(fs[k].properties).event)

\* C8: get_forecast makes its second fetcher call only once the first has
\* returned a document, and to the forecast URL that document embeds; a failed
\* first call gives the stage-one message and no second call; a failed second
\* call gives the stage-two message, which differs from the first.
C8_TwoStagePipeline ==
    tool = "get_forecast" =>
        /\ Len(urls) \in {1, 2}
        /\ hpc = "points" => Len(urls) = 1
        /\ Len(urls) = 2 =>
              /\ hpc \in {"forecast", "done"}
              /\ points_data # PyNone
              /\ Has(points_data.properties)
              /\ Val(points_data.properties).forecast = Some(urls[2])
              /\ fetch.url = urls[2]
        /\ (hpc = "done" /\ Len(urls) = 1 /\ fetch.ret = PyNone) =>
              result = Returns(<<MSG_POINTS_UNAVAILABLE>>)
        /\ (hpc = "done" /\ Len(urls) = 2 /\ fetch.ret = PyNone) =>
              result = Returns(<<MSG_FORECAST_UNAVAILABLE>>)
        /\ MSG_POINTS_UNAVAILABLE # MSG_FORECAST_UNAVAILABLE

\* the second stage was reached, to the second of the URLs, and its call failed
C8_Witness ==
    /\ tool = "get_forecast"
    /\ hpc = "done"
    /\ Len(urls) = 2
    /\ urls[2][2] = "gridpoints/LWX/96,70/forecast"
    /\ fetch.ret = PyNone
    /\ fetch.via = "except HTTPStatusError"

\* C9: a get_forecast that returns a forecast for a document with n periods
\* returns exactly min(n, 5) entries, the k-th being the rendering of the k-th
\* period of the document.
C9_FirstFivePeriods ==
    ( /\ tool = "get_forecast" /\ hpc = "done" /\ Len(urls) = 2
      /\ ~result.exc /\ result.text \notin FixedMessages ) =>
        LET periods == Val(Val(forecast_data.properties).periods)
            n == Len(periods)
        IN  /\ forecast_data = fetch.ret
            /\ EntryCount(result.text) = IF n < 5 THEN n ELSE 5
            /\ \A k \in 1..EntryCount(result.text) :
                  /\ Entry(result.text, k)[1] = Val(periods[k].name)
                  /\ Entry(result.text, k)[3] = ToString(Val(periods[k].temperature))
                  /\ Len(Entry(result.text, k)) = 9

\* six periods came back, latest first, and five entries were returned
C9_Witness ==
    /\ tool = "get_forecast" /\ hpc = "done" /\ ~result.exc
    /\ Has(forecast_data.properties)
    /\ Has(Val(forecast_data.properties).periods)
    /\ Len(Val(Val(forecast_data.properties).periods)) = 6
    /\ Val(Val(forecast_data.properties).periods)[1] = Period(6)
    /\ EntryCount(result.text) = 5

\* does the document the handler last fetched lack a field the handler expects
LacksExpectedField ==
    /\ fetch.via = "response.json()"
    /\ \/ /\ tool = "get_alerts"
          /\ \/ ~Has(fetch.ret.features)
             \/ \E k \in 1..Len(Val(fetch.ret.features)) :
                   ~Has(Val(fetch.ret.features)[k].properties)
       \/ /\ tool = "get_forecast" /\ Len(urls) = 1
          /\ \/ ~Has(fetch.ret.properties)
             \/ ~Has(Val(fetch.ret.properties).forecast)
       \/ /\ tool = "get_forecast" /\ Len(urls) = 2
          /\ \/ ~Has(fetch.ret.properties)
             \/ ~Has(Val(fetch.ret.properties).periods)

\* C10: a fetched document that lacks an expected field makes the handler
\* return one of its descriptive strings; it never ends in an exception.
C10_MissingFieldIsNoData ==
    (hpc = "done" /\ LacksExpectedField) =>
        /\ ~result.exc
        /\ result.text \in FixedMessages

\* C15: every make_nws_request call sleeps the throttle delay, a value in 1..3,
\* exactly once, before its first request and not again before a retry; the
\* handler has slept one throttle per fetcher call it made, so two when
\* get_forecast has been through both stages.
C15_ThrottleOncePerCall ==
    /\ fetch.pc = "throttle" => fetch.trace = <<>>
    /\ fetch.pc \notin {"off", "throttle"} =>
          /\ Len(fetch.trace) >= 1
          /\ fetch.trace[1].op = "throttle"
          /\ fetch.trace[1].n \in 1..3
          /\ \A j \in 2..Len(fetch.trace) : fetch.trace[j].op # "throttle"
    /\ hpc # "idle" =>
          throttles = IF fetch.pc = "throttle" THEN Len(urls) - 1 ELSE Len(urls)
    /\ (tool = "get_forecast" /\ hpc = "done" /\ Len(urls) = 2) => throttles = 2

\* get_forecast is through both stages, the second one after two retries
C15_Witness ==
    /\ tool = "get_forecast" /\ hpc = "done" /\ Len(urls) = 2
    /\ Gets(fetch) = 3
    /\ throttles = 2

\* the i-th attempt of call f was handled the way a transport failure is: on
\* attempts 1 and 2 a sleep of 5 and then the next request, on attempt 3 a
\* return of None with nothing after the request
RetriedLikeTransportFailure(f, i) ==
    LET g == GetPos(f, i) IN
    IF i < 3
    THEN /\ Len(f.trace) > g
         /\ f.trace[g + 1] = Ev("sleep", 5)
         /\ Len(f.trace) > g + 1 => f.trace[g + 2].op = "get"
         /\ i = Len(f.outcomes) => f.pc \in {"sleep", "get", "wait"}
    ELSE /\ Len(f.trace) = g
         /\ f.pc = "returned"
         /\ f.ret = PyNone

\* C16: a transport failure on attempt 1 or 2 is followed by a sleep of exactly
\* 5 and then the next attempt; on attempt 3 the call returns None at once,
\* without a sleep.
C16_TransportFailureBackoff ==
    \A i \in 1..Len(fetch.outcomes) :
        fetch.outcomes[i] = TransportFailure => RetriedLikeTransportFailure(fetch, i)

\* transport failures on the first and on the final attempt
C16_Witness ==
    /\ Len(fetch.outcomes) = 3
    /\ fetch.outcomes[1] = TransportFailure
    /\ fetch.outcomes[2].status = 429
    /\ fetch.outcomes[3] = TransportFailure
    /\ fetch.pc = "returned"

\* C18: a 429 on the third attempt is still followed by its backoff sleep, and
\* the call then ends with None by leaving the loop; no request follows that
\* sleep.  The end of the function is reached in no other way.
C18_FinalRateLimitStillSleeps ==
    /\ ( /\ Len(fetch.outcomes) = 3
         /\ fetch.outcomes[3].status = 429
         /\ HintedDelay(fetch.outcomes[3].retryAfter) >= 0 )
       => /\ Last(fetch.trace) = Ev("sleep", HintedDelay(fetch.outcomes[3].retryAfter))
          /\ Gets(fetch) = 3
          /\ fetch.pc \in {"sleep", "returned"}
          /\ fetch.ret = PyNone
          /\ fetch.pc = "returned" => fetch.via = "end of function"
    /\ fetch.via = "end of function" =>
          /\ Len(fetch.outcomes) = 3
          /\ fetch.outcomes[3].status = 429
          /\ Last(fetch.trace).op = "sleep"

\* the third attempt was answered 429 with Retry-After: 7 and the call is over
C18_Witness ==
    /\ Len(fetch.outcomes) = 3
    /\ fetch.outcomes[3].status = 429
    /\ fetch.outcomes[3].retryAfter = Some(<<"7">>)
    /\ fetch.pc = "returned"
    /\ fetch.via = "end of function"

\* C19: a 2xx response whose body does not parse is handled like a transport
\* failure: a sleep of 5 and a retry on attempts 1 and 2, None on attempt 3.
C19_BadBodyIsRetried ==
    \A i \in 1..Len(fetch.outcomes) :
        (Is2xx(fetch.outcomes[i].status) /\ fetch.outcomes[i].body.text # "json")
            => RetriedLikeTransportFailure(fetch, i)

\* a cut-short body on the first attempt, a document from the second
C19_Witness ==
    /\ Len(fetch.outcomes) = 2
    /\ Is2xx(fetch.outcomes[1].status)
    /\ fetch.outcomes[1].body.text = "truncated"
    /\ ParsedOk(fetch.outcomes[2])
    /\ fetch.pc = "returned"
    /\ fetch.ret # PyNone

\* C20: a 429 whose Retry-After header is present but no integer is handled
\* like a transport failure: the hint is not used, attempts 1 and 2 sleep 5
\* and retry, attempt 3 returns None without a sleep.
C20_BadRetryAfterIsTransportFailure ==
    \A i \in 1..Len(fetch.outcomes) :
        ( /\ fetch.outcomes[i].status = 429
          /\ fetch.outcomes[i].retryAfter = Some(<<"W", "e", "d">>) )
            => RetriedLikeTransportFailure(fetch, i)

\* a date in Retry-After on the first and on the final attempt
C20_Witness ==
    /\ Len(fetch.outcomes) = 3
    /\ fetch.outcomes[1].status = 429
    /\ fetch.outcomes[1].retryAfter = Some(<<"W", "e", "d">>)
    /\ fetch.outcomes[3].status = 429
    /\ fetch.outcomes[3].retryAfter = Some(<<"W", "e", "d">>)
    /\ fetch.pc = "returned"
    /\ Last(fetch.trace).op = "get"

\* C17: given that every request completes or times out and every sleep ends,
\* every make_nws_request call that was started returns, and every get_alerts
\* and get_forecast invocation returns a result (or raises), whatever the
\* upstream answers.
C17_EveryCallReturns ==
    /\ (fetch.pc \in {"throttle", "get", "wait", "sleep"}) ~> (fetch.pc = "returned")
    /\ (hpc \in {"alerts", "points", "forecast"}) ~> (hpc = "done")

\* get_forecast has returned after a second call that used all its attempts
\* and all its sleeps
C17_Witness ==
    /\ tool = "get_forecast" /\ hpc = "done" /\ Len(urls) = 2
    /\ Len(fetch.trace) = 7
    /\ result = Returns(<<MSG_FORECAST_UNAVAILABLE>>)

\* the documented placeholder of each field of an alert record
Placeholder(k) ==
    IF k = "description" THEN "no description"
    ELSE IF k = "instruction" THEN "no instructions"
    ELSE "unknown"

\* the fields in the order format_alert prints them, each after its label
AlertLayout == <<"event", "areaDesc", "severity", "description", "instruction">>

\* C11: for every alert record (the properties map of a feature), whichever of
\* its five fields are absent, format_alert returns a text and does not raise;
\* in it every present field appears with its value and every absent one with
\* its placeholder.
C11_FormatAlertTotal ==
    (formatted # Pending /\ Has(alert.properties)) =>
        /\ ~formatted.exc
        /\ Len(formatted.text) = 10
        /\ \A i \in 1..5 :
              LET k == AlertLayout[i]
                  field == Val(alert.properties)[k]
              IN  formatted.text[2 * i] = IF Has(field) THEN Val(field) ELSE Placeholder(k)

\* a record that lacks only its description has been formatted
C11_Witness ==
    /\ formatted # Pending
    /\ Has(alert.properties)
    /\ \A k \in AlertKeys : Has(Val(alert.properties)[k]) <=> k # "description"
    /\ formatted.text[8] = "no description"
    /\ formatted.text[2] = "Heat Advisory"

\* A call run alone: its state right after the outcomes `outs` of its requests,
\* having slept the throttle d.
RECURSIVE Alone(_, _, _)
Alone(url, d, outs) ==
    IF Len(outs) = 0 THEN throttle(make_nws_request(url), d)
    ELSE LET before == Alone(url, d, SubSeq(outs, 1, Len(outs) - 1))
             ready == IF before.pc = "sleep" THEN loop_continue(before) ELSE before
             sent == [client_get(ready) EXCEPT !.outcomes = Append(@, Last(outs))]
         IN  IF Last(outs) = TransportFailure THEN except_Exception(sent)
             ELSE on_response(sent, Last(outs))

\* the states a call run alone goes through between that outcome and the next
AloneStates(url, d, outs) ==
    LET s0 == Alone(url, d, outs)
        s1 == IF s0.pc = "sleep" THEN loop_continue(s0) ELSE s0
        s2 == IF s1.pc = "get" THEN client_get(s1) ELSE s1
    IN  {s0, s1, s2}

\* C12: with several make_nws_request calls interleaved step by step, each
\* call's requests, sleeps and result are those of the same call run alone on
\* the responses to its own requests; it issues at most 3 requests, one more
\* than or as many as the outcomes it has itself received.
C12_CallsAreIndependent ==
    \A i \in DOMAIN calls :
        LET c == calls[i] IN
        /\ Gets(c) <= 3
        /\ Gets(c) - Len(c.outcomes) \in {0, 1}
        /\ IF c.pc = "throttle" THEN c = make_nws_request(c.url)
           ELSE c \in AloneStates(c.url, c.trace[1].n, c.outcomes)
        /\ ( /\ Len(c.outcomes) >= 1
             /\ \A k \in 1..Len(c.outcomes) : c.outcomes[k] = TransportFailure )
           => (c.pc = "returned" <=> Len(c.outcomes) = 3)

\* one call has used up its attempts on transport failures while another, in
\* between, got its document from its first request
C12_Witness ==
    \E i, j \in DOMAIN calls :
        /\ i # j
        /\ calls[i].pc = "returned"
        /\ Len(calls[i].outcomes) = 3
        /\ \A k \in 1..3 : calls[i].outcomes[k] = TransportFailure
        /\ calls[j].pc = "returned"
        /\ Gets(calls[j]) = 1
        /\ calls[j].ret # PyNone

====
